---- MODULE Spec2Model ----
(***************************************************************************)
(* The ConnectUAE data cleaning pipeline of clean_data_script.py: main()   *)
(* loads five tables and threads them through remove_duplicates,           *)
(* standardize_labels, handle_missing_values, handle_outliers and          *)
(* fix_impossible_values, then saves them and prints a summary.            *)
(*                                                                         *)
(* A table is a sequence of rows in DataFrame order; a row is a record of  *)
(* the columns the cleaning code reads or writes, plus `rest`, the row's   *)
(* position in the loaded file, which stands for all the columns no stage  *)
(* touches.  A cell that pandas holds as NaN/NaT is Missing (<<>>) and a   *)
(* present cell is <<v>>.  data_usage_gb and outage_duration_mins are      *)
(* exact rationals [n, d] (float rounding is not modelled); dates are day  *)
(* numbers and outage times are seconds.                                   *)
(*                                                                         *)
(* Nullable cells are the ones the data model or the generator leaves      *)
(* empty: data_usage_gb, payment_date, resolution_date,                    *)
(* outage_duration_mins, and in addition usage.subscriber_id,              *)
(* outage_start_time and outage_end_time, which read_csv loads as NaN/NaT  *)
(* when the cell is empty.  Key columns, bill_amount, ticket_date,         *)
(* usage_date and activation_date are always present.                      *)
(***************************************************************************)
EXTENDS Integers, Sequences, FiniteSets, TLC

VARIABLES pc, input, subscribers, usage, billing, tickets, outages,
          prev, removed, output, report

vars == <<pc, input, subscribers, usage, billing, tickets, outages,
          prev, removed, output, report>>

----------------------------------------------------------------------------
(* Cells *)

Missing == <<>>

Some(v) == <<v>>

isna(c) == c = Missing

notna(c) == c # Missing

Val(c) == c[1]

----------------------------------------------------------------------------
(* Exact arithmetic standing for the float columns *)

Abs(x) == IF x < 0 THEN -x ELSE x

RECURSIVE GCD(_, _)
GCD(a, b) == IF b = 0 THEN a ELSE GCD(b, a % b)

Norm(n, d) == LET g == GCD(Abs(n), d) IN [n |-> n \div g, d |-> d \div g]

R(k) == [n |-> k, d |-> 1]

RatAdd(a, b) == Norm(a.n * b.d + b.n * a.d, a.d * b.d)

RatDivInt(a, k) == Norm(a.n, a.d * k)

RatGT(a, k) == a.n > k * a.d

----------------------------------------------------------------------------
(* Bounds of the explored inputs *)

MaxUsageRows == 3

MaxRows == 2

MaxSubscriberRows == 2

MaxDupRows == 3

----------------------------------------------------------------------------
(* Thresholds of the cleaning rules *)

UsageCap == 100

BillFlagThreshold == 2000

OutageFlagThreshold == 1440

SecondsPerMinute == 60

----------------------------------------------------------------------------
(* DataFrame helpers *)

(* df.loc[:, col] = values, values being a column aligned with the rows of t *)
SetCol(t, col, values) == [i \in 1..Len(t) |-> [t[i] EXCEPT ![col] = values[i]]]

(* df[mask], mask being a boolean column aligned with the rows of t *)
Filter(t, mask) ==
    LET F[i \in 0..Len(t)] ==
            IF i = 0 THEN <<>>
            ELSE IF mask[i] THEN Append(F[i - 1], t[i]) ELSE F[i - 1]
    IN F[Len(t)]

(* sum() of a boolean column *)
CountTrue(column) == Cardinality({i \in 1..Len(column) : column[i]})

(* a variant of DropDuplicates with keep='last' *)
DropDuplicatesKeepLast(t, key) ==
    LET F[i \in 0..Len(t)] ==
            IF i = 0 THEN <<>>
            ELSE IF \E j \in (i + 1)..Len(t) : t[j][key] = t[i][key]
                 THEN F[i - 1]
                 ELSE Append(F[i - 1], t[i])
    IN F[Len(t)]

(* a variant of DropDuplicates that removes only the first repeat of a key *)
DropDuplicatesFirstRepeat(t, key) ==
    Filter(t, [i \in 1..Len(t) |->
                  Cardinality({j \in 1..(i - 1) : t[j][key] = t[i][key]}) # 1])

DropDuplicates(t, key) ==
    LET F[i \in 0..Len(t)] ==
            IF i = 0 THEN <<>>
            ELSE IF \E j \in 1..(i - 1) : t[j][key] = t[i][key]
                 THEN F[i - 1]
                 ELSE Append(F[i - 1], t[i])
    IN F[Len(t)]

Replace(v, mapping) == IF v \in DOMAIN mapping THEN mapping[v] ELSE v

Unique(s) ==
    LET F[i \in 0..Len(s)] ==
            IF i = 0 THEN <<>>
            ELSE IF \E j \in 1..(i - 1) : s[j] = s[i]
                 THEN F[i - 1]
                 ELSE Append(F[i - 1], s[i])
    IN F[Len(s)]

(* comparisons of float cells: any comparison with NaN is False *)
CellGT(c, k) == notna(c) /\ RatGT(Val(c), k)

(* comparisons of datetime cells: any comparison with NaT is False *)
DateLT(c, d) == notna(c) /\ Val(c) < d

(* == on the subscriber_id column: NaN equals nothing, itself included *)
SubEq(c, sub_id) == notna(c) /\ notna(sub_id) /\ c = sub_id

----------------------------------------------------------------------------
(* standardize_labels: the three synonym mappings *)

plan_type_mapping ==
    [x \in {"prepaid", "PREPAID", "Pre-paid", "postpaid", "POSTPAID", "Post-paid"} |->
        IF x \in {"prepaid", "PREPAID", "Pre-paid"} THEN "Prepaid" ELSE "Postpaid"]

city_mapping ==
    [x \in {"AbuDhabi", "Abu-Dhabi", "AD", "dubai", "DUBAI"} |->
        IF x \in {"AbuDhabi", "Abu-Dhabi", "AD"} THEN "Abu Dhabi" ELSE "Dubai"]

(* a variant of status_mapping whose target for Closed is itself a variant *)
status_mapping_chained ==
    [x \in {"resolved", "RESOLVED", "Closed", "open", "OPEN"} |->
        IF x \in {"resolved", "RESOLVED"} THEN "Resolved"
        ELSE IF x = "Closed" THEN "resolved" ELSE "Open"]

status_mapping ==
    [x \in {"resolved", "RESOLVED", "Closed", "open", "OPEN"} |->
        IF x \in {"resolved", "RESOLVED", "Closed"} THEN "Resolved" ELSE "Open"]

(* a variant of StandardizeSubscribers that forgets the city column *)
StandardizeSubscribersPlanOnly(subs) ==
    SetCol(subs, "plan_type",
           [i \in 1..Len(subs) |-> Replace(subs[i].plan_type, plan_type_mapping)])

StandardizeSubscribers(subs) ==
    LET plans == [i \in 1..Len(subs) |-> Replace(subs[i].plan_type, plan_type_mapping)]
        cities == [i \in 1..Len(subs) |-> Replace(subs[i].city, city_mapping)]
    IN SetCol(SetCol(subs, "plan_type", plans), "city", cities)

(* a variant of StandardizeTickets that leaves ticket_status as loaded *)
StandardizeTicketsSkipped(tks) == tks

StandardizeTickets(tks) ==
    SetCol(tks, "ticket_status",
           [i \in 1..Len(tks) |-> Replace(tks[i].ticket_status, status_mapping)])

----------------------------------------------------------------------------
(* handle_missing_values *)

RECURSIVE SumData(_, _)
SumData(t, idx) ==
    IF idx = {} THEN R(0)
    ELSE LET i == CHOOSE j \in idx : TRUE
         IN RatAdd(Val(t[i].data_usage_gb), SumData(t, idx \ {i}))

(* Series.mean() of a selection: NaN when the selection is empty *)
MeanData(t, idx) ==
    IF idx = {} THEN Missing
    ELSE Some(RatDivInt(SumData(t, idx), Cardinality(idx)))

MissingUsageSubIds(us) ==
    LET missing == Filter(us, [i \in 1..Len(us) |-> isna(us[i].data_usage_gb)])
    IN Unique([i \in 1..Len(missing) |-> missing[i].subscriber_id])

(* a variant of ImputeSubscriber that averages over every subscriber's values *)
ImputeSubscriberGlobalMean(us, sub_id) ==
    LET known == {i \in 1..Len(us) : notna(us[i].data_usage_gb)}
        sub_avg == MeanData(us, known)
        fill == IF notna(sub_avg) THEN sub_avg ELSE Some(R(0))
    IN SetCol(us, "data_usage_gb",
              [i \in 1..Len(us) |->
                  IF SubEq(us[i].subscriber_id, sub_id) /\ isna(us[i].data_usage_gb)
                  THEN fill ELSE us[i].data_usage_gb])

ImputeSubscriber(us, sub_id) ==
    LET known == {i \in 1..Len(us) : SubEq(us[i].subscriber_id, sub_id)
                                     /\ notna(us[i].data_usage_gb)}
        sub_avg == MeanData(us, known)
        fill == IF notna(sub_avg) THEN sub_avg ELSE Some(R(0))
    IN SetCol(us, "data_usage_gb",
              [i \in 1..Len(us) |->
                  IF SubEq(us[i].subscriber_id, sub_id) /\ isna(us[i].data_usage_gb)
                  THEN fill ELSE us[i].data_usage_gb])

RECURSIVE ImputeLoop(_, _)
ImputeLoop(us, ids) ==
    IF ids = <<>> THEN us
    ELSE ImputeLoop(ImputeSubscriber(us, Head(ids)), Tail(ids))

ImputeUsage(us) == ImputeLoop(us, MissingUsageSubIds(us))

(* a variant of PaidWithoutDate that tests notna() instead of isna() *)
PaidWithDate(r) == r.payment_status = "Paid" /\ notna(r.payment_date)

PaidWithoutDate(r) == r.payment_status = "Paid" /\ isna(r.payment_date)

(* a variant of FlagBilling without the reset of line 135 *)
FlagBillingKeepOld(bl) ==
    SetCol(bl, "data_quality_flag",
           [i \in 1..Len(bl) |->
               IF PaidWithoutDate(bl[i]) THEN TRUE ELSE bl[i].data_quality_flag])

FlagBilling(bl) ==
    LET reset == SetCol(bl, "data_quality_flag", [i \in 1..Len(bl) |-> FALSE])
    IN SetCol(reset, "data_quality_flag",
              [i \in 1..Len(bl) |->
                  IF PaidWithoutDate(reset[i]) THEN TRUE ELSE reset[i].data_quality_flag])

ResolvedWithoutDate(r) == r.ticket_status = "Resolved" /\ isna(r.resolution_date)

FlagTickets(tks) ==
    LET reset == SetCol(tks, "data_quality_flag", [i \in 1..Len(tks) |-> FALSE])
    IN SetCol(reset, "data_quality_flag",
              [i \in 1..Len(tks) |->
                  IF ResolvedWithoutDate(reset[i]) THEN TRUE
                  ELSE reset[i].data_quality_flag])

(* (end - start).dt.total_seconds() / 60: NaN when either time is NaT *)
(* a variant of ElapsedMinutes that forgets the division by 60 *)
ElapsedSeconds(r) ==
    IF isna(r.outage_end_time) \/ isna(r.outage_start_time) THEN Missing
    ELSE Some(R(Val(r.outage_end_time) - Val(r.outage_start_time)))

ElapsedMinutes(r) ==
    IF isna(r.outage_end_time) \/ isna(r.outage_start_time) THEN Missing
    ELSE Some(RatDivInt(R(Val(r.outage_end_time) - Val(r.outage_start_time)),
                        SecondsPerMinute))

FillDuration(r) ==
    IF isna(r.outage_duration_mins) THEN ElapsedMinutes(r)
    ELSE r.outage_duration_mins

ImputeOutages(ot) ==
    SetCol(ot, "outage_duration_mins", [i \in 1..Len(ot) |-> FillDuration(ot[i])])

----------------------------------------------------------------------------
(* handle_outliers *)

ExtremeUsage(r) == CellGT(r.data_usage_gb, UsageCap)

CapValue(r) == IF ExtremeUsage(r) THEN Some(R(UsageCap)) ELSE r.data_usage_gb

(* a variant of CapUsage that caps before it computes outlier_flag *)
CapUsageFlagAfterCap(us) ==
    LET capped == SetCol(us, "data_usage_gb", [i \in 1..Len(us) |-> CapValue(us[i])])
    IN SetCol(capped, "outlier_flag", [i \in 1..Len(us) |-> ExtremeUsage(capped[i])])

CapUsage(us) ==
    LET flagged == SetCol(us, "outlier_flag", [i \in 1..Len(us) |-> ExtremeUsage(us[i])])
    IN SetCol(flagged, "data_usage_gb", [i \in 1..Len(us) |-> CapValue(flagged[i])])

ExtremeBill(r) == r.bill_amount > BillFlagThreshold

BillFlag(r) == IF ExtremeBill(r) THEN TRUE ELSE r.data_quality_flag

FlagExtremeBills(bl) ==
    SetCol(bl, "data_quality_flag", [i \in 1..Len(bl) |-> BillFlag(bl[i])])

ExtremeOutage(r) == CellGT(r.outage_duration_mins, OutageFlagThreshold)

(* a variant of FlagExtremeOutages with >= for > *)
FlagExtremeOutagesInclusive(ot) ==
    SetCol(ot, "outlier_flag",
           [i \in 1..Len(ot) |->
               /\ notna(ot[i].outage_duration_mins)
               /\ Val(ot[i].outage_duration_mins).n
                     >= OutageFlagThreshold * Val(ot[i].outage_duration_mins).d])

FlagExtremeOutages(ot) ==
    SetCol(ot, "outlier_flag", [i \in 1..Len(ot) |-> ExtremeOutage(ot[i])])

----------------------------------------------------------------------------
(* fix_impossible_values *)

NonNegativeBill(r) == r.bill_amount >= 0

(* a variant of FixBilling with > 0 for >= 0 *)
FixBillingPositiveOnly(bl) == Filter(bl, [i \in 1..Len(bl) |-> bl[i].bill_amount > 0])

FixBilling(bl) == Filter(bl, [i \in 1..Len(bl) |-> NonNegativeBill(bl[i])])

ImpossibleTicket(r) == DateLT(r.resolution_date, r.ticket_date)

ClearResolution(r) == IF ImpossibleTicket(r) THEN Missing ELSE r.resolution_date

Downgrade(r) == IF ResolvedWithoutDate(r) THEN "In Progress" ELSE r.ticket_status

(* a variant of FixTickets that clears the date and leaves the status *)
FixTicketsNoCascade(tks) ==
    SetCol(tks, "resolution_date", [i \in 1..Len(tks) |-> ClearResolution(tks[i])])

(* a variant of FixTickets that recomputes data_quality_flag after the fix *)
FixTicketsReflag(tks) ==
    LET cleared == SetCol(tks, "resolution_date",
                          [i \in 1..Len(tks) |-> ClearResolution(tks[i])])
        fixed == SetCol(cleared, "ticket_status",
                        [i \in 1..Len(tks) |-> Downgrade(cleared[i])])
    IN SetCol(fixed, "data_quality_flag",
              [i \in 1..Len(tks) |-> ResolvedWithoutDate(fixed[i])])

FixTickets(tks) ==
    LET cleared == SetCol(tks, "resolution_date",
                          [i \in 1..Len(tks) |-> ClearResolution(tks[i])])
    IN SetCol(cleared, "ticket_status", [i \in 1..Len(tks) |-> Downgrade(cleared[i])])

(* usage.merge(subscribers[['subscriber_id','activation_date']], on='subscriber_id'):
   one row per (usage row, subscriber row) pair with equal keys *)
UsageMerged(us, subs) ==
    {<<i, j>> \in (1..Len(us)) \X (1..Len(subs)) :
        us[i].subscriber_id = subs[j].subscriber_id}

ValidUsageIds(us, subs) ==
    {us[p[1]].usage_id : p \in {q \in UsageMerged(us, subs) :
        us[q[1]].usage_date >= subs[q[2]].activation_date}}

(* a variant of FixUsage that joins and forgets the date filter *)
FixUsageJoinOnly(us, subs) ==
    LET joined == {us[p[1]].usage_id : p \in UsageMerged(us, subs)}
    IN Filter(us, [i \in 1..Len(us) |-> us[i].usage_id \in joined])

(* a variant of FixUsage that also drops the rows handle_outliers flagged *)
FixUsageDropOutliers(us, subs) ==
    LET valid == ValidUsageIds(us, subs)
    IN Filter(us, [i \in 1..Len(us) |-> us[i].usage_id \in valid /\ ~ us[i].outlier_flag])

(* a variant of FixUsage that removes only the rows that join a subscriber
   row activated after their usage_date *)
FixUsageKeepOrphans(us, subs) ==
    LET early == {us[p[1]].usage_id : p \in {q \in UsageMerged(us, subs) :
                     us[q[1]].usage_date < subs[q[2]].activation_date}}
    IN Filter(us, [i \in 1..Len(us) |-> us[i].usage_id \notin early])

FixUsage(us, subs) ==
    LET valid == ValidUsageIds(us, subs)
    IN Filter(us, [i \in 1..Len(us) |-> us[i].usage_id \in valid])

----------------------------------------------------------------------------
(* The raw files: the inputs explored *)

Tables(s, u, b, t, o) ==
    [subscribers |-> s, usage |-> u, billing |-> b, tickets |-> t, outages |-> o]

NoTables == Tables(<<>>, <<>>, <<>>, <<>>, <<>>)

SubscriberRow(i, c) ==
    [subscriber_id |-> Some(c.id), plan_type |-> c.plan_type, city |-> c.city,
     activation_date |-> c.activation_date, rest |-> i]

UsageRow(i, c) ==
    [usage_id |-> i, subscriber_id |-> c.subscriber_id, usage_date |-> c.usage_date,
     data_usage_gb |-> c.data_usage_gb, outlier_flag |-> c.outlier_flag, rest |-> i]

BillingRow(i, c) ==
    [bill_id |-> i, bill_amount |-> c.bill_amount, payment_status |-> c.payment_status,
     payment_date |-> c.payment_date, data_quality_flag |-> c.data_quality_flag,
     rest |-> i]

TicketRow(i, c) ==
    [ticket_id |-> i, ticket_date |-> c.ticket_date, ticket_status |-> c.ticket_status,
     resolution_date |-> c.resolution_date, data_quality_flag |-> c.data_quality_flag,
     rest |-> i]

OutageRow(i, c) ==
    [outage_id |-> i, outage_start_time |-> c.outage_start_time,
     outage_end_time |-> c.outage_end_time,
     outage_duration_mins |-> c.outage_duration_mins,
     outlier_flag |-> c.outlier_flag, rest |-> i]

SubscriberTable(f) == [i \in 1..Len(f) |-> SubscriberRow(i, f[i])]

UsageTable(f) == [i \in 1..Len(f) |-> UsageRow(i, f[i])]

BillingTable(f) == [i \in 1..Len(f) |-> BillingRow(i, f[i])]

TicketTable(f) == [i \in 1..Len(f) |-> TicketRow(i, f[i])]

OutageTable(f) == [i \in 1..Len(f) |-> OutageRow(i, f[i])]

SubIds == {Missing, Some("SUB1"), Some("SUB2")}

Usage(d) == Some(R(d))

SubscriberCell(id, act) ==
    [id |-> id, plan_type |-> "Prepaid", city |-> "Dubai", activation_date |-> act]

TwoSubscribers == SubscriberTable(<<SubscriberCell("SUB1", 2), SubscriberCell("SUB2", 2)>>)

(* usage files for the imputation: up to MaxUsageRows rows of SUB1, of SUB2
   and of no subscriber, all on the activation date *)
ImputeUsageCells ==
    [subscriber_id : SubIds, usage_date : {2},
     data_usage_gb : {Missing, Usage(10), Usage(20), Usage(190)}, outlier_flag : {FALSE}]

ImputeInput(f) == Tables(TwoSubscribers, UsageTable(f), <<>>, <<>>, <<>>)

(* usage files around the activation date, with subscriber files that hold a
   duplicate subscriber_id or lack SUB2 *)
FixUsageCells ==
    [subscriber_id : SubIds, usage_date : {1, 2},
     data_usage_gb : {Usage(10), Usage(190)}, outlier_flag : BOOLEAN]

FixSubscriberFiles ==
    {SubscriberTable(<<SubscriberCell("SUB1", 2), SubscriberCell("SUB2", 1)>>),
     SubscriberTable(<<SubscriberCell("SUB1", 2), SubscriberCell("SUB1", 1)>>)}

FixUsageInput(s, f) == Tables(s, UsageTable(f), <<>>, <<>>, <<>>)

BillingCells ==
    [bill_amount : {-50, 0, 2000, 2001}, payment_status : {"Paid", "Pending"},
     payment_date : {Missing, Some(5)}, data_quality_flag : BOOLEAN]

BillingInput(f) == Tables(<<>>, <<>>, BillingTable(f), <<>>, <<>>)

TicketCells ==
    [ticket_date : {2}, ticket_status : {"Resolved", "Closed", "open", "In Progress"},
     resolution_date : {Missing, Some(1), Some(2)},
     data_quality_flag : BOOLEAN]

TicketInput(f) == Tables(<<>>, <<>>, <<>>, TicketTable(f), <<>>)

OutageCells ==
    [outage_start_time : {Some(0)}, outage_end_time : {Missing, Some(90), Some(86490)},
     outage_duration_mins : {Missing}, outlier_flag : BOOLEAN]
    \cup [outage_start_time : {Missing}, outage_end_time : {Some(90)},
          outage_duration_mins : {Missing}, outlier_flag : BOOLEAN]
    \cup [outage_start_time : {Some(0)}, outage_end_time : {Some(90)},
          outage_duration_mins : {Some(R(1440)), Some(R(1441))}, outlier_flag : BOOLEAN]
    \cup [outage_start_time : {Missing}, outage_end_time : {Missing},
          outage_duration_mins : {Some(R(1440)), Some(R(1441))}, outlier_flag : BOOLEAN]

OutageInput(f) == Tables(<<>>, <<>>, <<>>, <<>>, OutageTable(f))

(* subscriber files with duplicate keys and label variants *)
SubscriberCells ==
    [id : {"SUB1", "SUB2"}, plan_type : {"PREPAID", "Postpaid"},
     city : {"DUBAI", "Al Ain", "ad"}, activation_date : {2}]

SubscriberInput(f) == Tables(SubscriberTable(f), <<>>, <<>>, <<>>, <<>>)

(* files whose key column repeats values: every row holds the same cells and
   differs from the others in its key and in its position *)
DupKeyIds == {1, 2}

DupSubscriberIds == {"SUB1", "SUB2"}

SubscriberDupInput(ks) ==
    Tables(SubscriberTable([i \in 1..Len(ks) |-> SubscriberCell(ks[i], 2)]),
           <<>>, <<>>, <<>>, <<>>)

UsageDupInput(ks) ==
    LET cell == [subscriber_id |-> Some("SUB1"), usage_date |-> 2,
                 data_usage_gb |-> Usage(10), outlier_flag |-> FALSE]
    IN Tables(TwoSubscribers,
              SetCol(UsageTable([i \in 1..Len(ks) |-> cell]), "usage_id", ks),
              <<>>, <<>>, <<>>)

BillingDupInput(ks) ==
    LET cell == [bill_amount |-> 0, payment_status |-> "Paid",
                 payment_date |-> Some(5), data_quality_flag |-> FALSE]
    IN Tables(<<>>, <<>>,
              SetCol(BillingTable([i \in 1..Len(ks) |-> cell]), "bill_id", ks),
              <<>>, <<>>)

TicketDupInput(ks) ==
    LET cell == [ticket_date |-> 2, ticket_status |-> "Resolved",
                 resolution_date |-> Some(2), data_quality_flag |-> FALSE]
    IN Tables(<<>>, <<>>, <<>>,
              SetCol(TicketTable([i \in 1..Len(ks) |-> cell]), "ticket_id", ks),
              <<>>)

OutageDupInput(ks) ==
    LET cell == [outage_start_time |-> Some(0), outage_end_time |-> Some(90),
                 outage_duration_mins |-> Some(R(1440)), outlier_flag |-> FALSE]
    IN Tables(<<>>, <<>>, <<>>, <<>>,
              SetCol(OutageTable([i \in 1..Len(ks) |-> cell]), "outage_id", ks))

(* the files main can find under data/: one table varies, the others are fixed *)
IsInput(x) ==
    \/ \E k \in 0..MaxUsageRows : \E f \in [1..k -> ImputeUsageCells] :
            x = ImputeInput(f)
    \/ \E s \in FixSubscriberFiles : \E k \in 0..MaxRows :
            \E f \in [1..k -> FixUsageCells] : x = FixUsageInput(s, f)
    \/ \E k \in 0..MaxRows : \E f \in [1..k -> BillingCells] : x = BillingInput(f)
    \/ \E k \in 0..MaxRows : \E f \in [1..k -> TicketCells] : x = TicketInput(f)
    \/ \E k \in 0..MaxRows : \E f \in [1..k -> OutageCells] : x = OutageInput(f)
    \/ \E k \in 0..MaxSubscriberRows : \E f \in [1..k -> SubscriberCells] :
            x = SubscriberInput(f)
    \/ \E k \in 0..MaxDupRows : \E ks \in [1..k -> DupSubscriberIds] :
            x = SubscriberDupInput(ks)
    \/ \E k \in 0..MaxDupRows : \E ks \in [1..k -> DupKeyIds] :
            \/ x = UsageDupInput(ks)
            \/ x = BillingDupInput(ks)
            \/ x = TicketDupInput(ks)
            \/ x = OutageDupInput(ks)

----------------------------------------------------------------------------
(* main *)

Current == Tables(subscribers, usage, billing, tickets, outages)

Init ==
    /\ pc = "start"
    /\ IsInput(input)
    /\ subscribers = <<>>
    /\ usage = <<>>
    /\ billing = <<>>
    /\ tickets = <<>>
    /\ outages = <<>>
    /\ prev = NoTables
    /\ removed = [subscribers |-> 0, usage |-> 0, billing |-> 0, tickets |-> 0,
                  outages |-> 0]
    /\ output = Missing
    /\ report = Missing

(* load_raw_data returns the five tables *)
LoadRawData ==
    /\ pc = "start"
    /\ pc' = "loaded"
    /\ subscribers' = input.subscribers
    /\ usage' = input.usage
    /\ billing' = input.billing
    /\ tickets' = input.tickets
    /\ outages' = input.outages
    /\ UNCHANGED <<input, prev, removed, output, report>>

(* load_raw_data raises (a file is absent or unreadable): main ends there *)
LoadFails ==
    /\ pc = "start"
    /\ pc' = "load_failed"
    /\ UNCHANGED <<input, subscribers, usage, billing, tickets, outages, prev,
                   removed, output, report>>

RemoveDuplicates ==
    /\ pc = "loaded"
    /\ pc' = "deduplicated"
    /\ prev' = Current
    /\ subscribers' = DropDuplicates(subscribers, "subscriber_id")
    /\ usage' = DropDuplicates(usage, "usage_id")
    /\ billing' = DropDuplicates(billing, "bill_id")
    /\ tickets' = DropDuplicates(tickets, "ticket_id")
    /\ outages' = DropDuplicates(outages, "outage_id")
    /\ removed' = [subscribers |-> Len(subscribers) - Len(subscribers'),
                   usage |-> Len(usage) - Len(usage'),
                   billing |-> Len(billing) - Len(billing'),
                   tickets |-> Len(tickets) - Len(tickets'),
                   outages |-> Len(outages) - Len(outages')]
    /\ UNCHANGED <<input, output, report>>

StandardizeLabels ==
    /\ pc = "deduplicated"
    /\ pc' = "standardized"
    /\ prev' = Current
    /\ subscribers' = StandardizeSubscribers(subscribers)
    /\ tickets' = StandardizeTickets(tickets)
    /\ UNCHANGED <<input, usage, billing, outages, removed, output, report>>

HandleMissingValues ==
    /\ pc = "standardized"
    /\ pc' = "imputed"
    /\ prev' = Current
    /\ usage' = ImputeUsage(usage)
    /\ billing' = FlagBilling(billing)
    /\ tickets' = FlagTickets(tickets)
    /\ outages' = ImputeOutages(outages)
    /\ UNCHANGED <<input, subscribers, removed, output, report>>

HandleOutliers ==
    /\ pc = "imputed"
    /\ pc' = "outliers_handled"
    /\ prev' = Current
    /\ usage' = CapUsage(usage)
    /\ billing' = FlagExtremeBills(billing)
    /\ outages' = FlagExtremeOutages(outages)
    /\ UNCHANGED <<input, subscribers, tickets, removed, output, report>>

FixImpossibleValues ==
    /\ pc = "outliers_handled"
    /\ pc' = "fixed"
    /\ prev' = Current
    /\ billing' = FixBilling(billing)
    /\ tickets' = FixTickets(tickets)
    /\ usage' = FixUsage(usage, subscribers)
    /\ UNCHANGED <<input, subscribers, outages, removed, output, report>>

(* a variant of SaveCleanedData that main may call before fix_impossible_values *)
SaveCleanedDataEarly ==
    /\ pc \in {"outliers_handled", "fixed"}
    /\ pc' = "saved"
    /\ output' = Some(Current)
    /\ UNCHANGED <<input, subscribers, usage, billing, tickets, outages, prev,
                   removed, report>>

SaveCleanedData ==
    /\ pc = "fixed"
    /\ pc' = "saved"
    /\ output' = Some(Current)
    /\ UNCHANGED <<input, subscribers, usage, billing, tickets, outages, prev,
                   removed, report>>

Column(t, col) == [i \in 1..Len(t) |-> t[i][col]]

GenerateSummaryReport ==
    /\ pc = "saved"
    /\ pc' = "done"
    /\ report' = Some([subscribers |-> Len(subscribers), usage |-> Len(usage),
                       billing |-> Len(billing), tickets |-> Len(tickets),
                       outages |-> Len(outages),
                       billing_flagged |-> CountTrue(Column(billing, "data_quality_flag")),
                       tickets_flagged |-> CountTrue(Column(tickets, "data_quality_flag")),
                       usage_outliers |-> CountTrue(Column(usage, "outlier_flag")),
                       outage_outliers |-> CountTrue(Column(outages, "outlier_flag"))])
    /\ UNCHANGED <<input, subscribers, usage, billing, tickets, outages, prev,
                   removed, output>>

Next ==
    \/ LoadRawData
    \/ LoadFails
    \/ RemoveDuplicates
    \/ StandardizeLabels
    \/ HandleMissingValues
    \/ HandleOutliers
    \/ FixImpossibleValues
    \/ SaveCleanedData
    \/ GenerateSummaryReport

Spec == Init /\ [][Next]_vars

----------------------------------------------------------------------------
(* Properties of the stages and of the pipeline's output *)

SameExcept(a, b, cols) == \A f \in (DOMAIN a) \ cols : a[f] = b[f]

(* the sum of the data_usage_gb cells of rows idx as an unreduced fraction *)
RECURSIVE Total(_, _)
Total(t, idx) ==
    IF idx = {} THEN [n |-> 0, d |-> 1]
    ELSE LET i == CHOOSE j \in idx : TRUE
             v == Val(t[i].data_usage_gb)
             s == Total(t, idx \ {i})
         IN [n |-> v.n * s.d + s.n * v.d, d |-> v.d * s.d]

IsMeanOf(v, t, idx) ==
    LET s == Total(t, idx) IN v.n * s.d * Cardinality(idx) = s.n * v.d

OwnKnown(t, sub_id) ==
    {j \in 1..Len(t) : t[j].subscriber_id = sub_id /\ t[j].data_usage_gb # Missing}

(* C1: handle_missing_values sets every missing data_usage_gb of a row that has a
   subscriber_id to the mean of that subscriber's non-missing values in the
   stage's input, and to 0 when the subscriber has none; rows whose value was
   present (of this or of another subscriber) keep it. *)
C1_GroupedMeanImputation ==
    pc = "imputed" =>
        /\ Len(usage) = Len(prev.usage)
        /\ \A i \in 1..Len(usage) :
            LET old == prev.usage[i]
                new == usage[i]
                own == OwnKnown(prev.usage, old.subscriber_id)
            IN /\ SameExcept(old, new, {"data_usage_gb"})
               /\ old.data_usage_gb # Missing => new.data_usage_gb = old.data_usage_gb
               /\ (old.data_usage_gb = Missing /\ old.subscriber_id # Missing) =>
                     /\ new.data_usage_gb # Missing
                     /\ IF own = {} THEN new.data_usage_gb = <<[n |-> 0, d |-> 1]>>
                        ELSE IsMeanOf(new.data_usage_gb[1], prev.usage, own)

(* the scenario of C1: SUB1 has rows with 10, 20 and a missing value, which
   becomes 15, while a row of another subscriber with no known value becomes 0 *)
C1_Witness ==
    /\ pc = "imputed"
    /\ Len(usage) = 3
    /\ \A i \in 1..3 : prev.usage[i].subscriber_id = <<"SUB1">>
    /\ {prev.usage[i].data_usage_gb : i \in 1..3} =
           {Missing, <<[n |-> 10, d |-> 1]>>, <<[n |-> 20, d |-> 1]>>}
    /\ \E i \in 1..3 : /\ prev.usage[i].data_usage_gb = Missing
                       /\ usage[i].data_usage_gb = <<[n |-> 15, d |-> 1]>>

(* C2: after handle_missing_values no usage row has a missing data_usage_gb and
   no outage row has a missing outage_duration_mins, whatever else the row
   lacks. *)
C2_CompletenessOfImputation ==
    pc = "imputed" =>
        /\ \A i \in 1..Len(usage) : usage[i].data_usage_gb # Missing
        /\ \A i \in 1..Len(outages) : outages[i].outage_duration_mins # Missing

(* C3: fix_impossible_values keeps every ticket; a ticket whose resolution_date
   is earlier than its ticket_date loses the resolution_date, and becomes
   In Progress if it was Resolved; a ticket whose resolution_date is present and
   not earlier keeps resolution_date and ticket_status. *)
C3_TicketOrderingCascade ==
    pc = "fixed" =>
        /\ Len(tickets) = Len(prev.tickets)
        /\ \A i \in 1..Len(tickets) :
            LET old == prev.tickets[i]
                new == tickets[i]
            IN /\ SameExcept(old, new, {"resolution_date", "ticket_status"})
               /\ (old.resolution_date # Missing
                   /\ old.resolution_date[1] < old.ticket_date) =>
                     /\ new.resolution_date = Missing
                     /\ old.ticket_status = "Resolved" => new.ticket_status = "In Progress"
                     /\ old.ticket_status # "Resolved" => new.ticket_status = old.ticket_status
               /\ (old.resolution_date # Missing
                   /\ old.resolution_date[1] >= old.ticket_date) =>
                     /\ new.resolution_date = old.resolution_date
                     /\ new.ticket_status = old.ticket_status

(* a Resolved ticket resolved before it was opened has been repaired *)
C3_Witness ==
    /\ pc = "fixed"
    /\ \E i \in 1..Len(tickets) :
        /\ prev.tickets[i].ticket_status = "Resolved"
        /\ prev.tickets[i].resolution_date = <<1>>
        /\ prev.tickets[i].ticket_date = 2
        /\ tickets[i].resolution_date = Missing
        /\ tickets[i].ticket_status = "In Progress"

Final == output[1]

ResolvedSynonyms == {"Resolved", "resolved", "RESOLVED", "Closed"}

KnownStatuses ==
    {"Resolved", "In Progress", "Open", "Escalated",
     "resolved", "RESOLVED", "Closed", "open", "OPEN"}

(* C4: when every loaded ticket_status is canonical or a mapped synonym, every
   ticket of the saved output that is Resolved has a resolution_date, every
   resolution_date of the output is >= ticket_date, and a loaded ticket whose
   status is a synonym of Resolved and whose resolution_date precedes its
   ticket_date is saved as In Progress. *)
C4_TicketOutputInvariant ==
    (output # Missing
     /\ \A i \in 1..Len(input.tickets) : input.tickets[i].ticket_status \in KnownStatuses) =>
        /\ \A i \in 1..Len(Final.tickets) :
            LET t == Final.tickets[i]
            IN /\ t.ticket_status = "Resolved" => t.resolution_date # Missing
               /\ t.resolution_date # Missing => t.resolution_date[1] >= t.ticket_date
        /\ \A i \in 1..Len(Final.tickets) :
            LET t == Final.tickets[i]
                raw == input.tickets[t.rest]
            IN (raw.ticket_status \in ResolvedSynonyms
                /\ raw.resolution_date # Missing
                /\ raw.resolution_date[1] < raw.ticket_date) =>
                    t.ticket_status = "In Progress"

(* a ticket loaded as Closed and resolved before it was opened is saved as
   In Progress *)
C4_Witness ==
    /\ output # Missing
    /\ \E i \in 1..Len(Final.tickets) :
        /\ input.tickets[Final.tickets[i].rest].ticket_status = "Closed"
        /\ input.tickets[Final.tickets[i].rest].resolution_date = <<1>>
        /\ Final.tickets[i].ticket_status = "In Progress"
        /\ Final.tickets[i].resolution_date = Missing

(* C5: fix_impossible_values leaves the (deduplicated) Subscriber table as it
   is, removes every usage row whose usage_date precedes the activation_date
   of the subscriber it references, and every usage row it returns has
   usage_date >= the activation_date of the subscriber row with its
   subscriber_id. *)
C5_UsageAfterActivation ==
    pc = "fixed" =>
        /\ subscribers = prev.subscribers
        /\ \A i \in 1..Len(prev.usage) :
            (\E j \in 1..Len(subscribers) :
                /\ subscribers[j].subscriber_id = prev.usage[i].subscriber_id
                /\ prev.usage[i].usage_date < subscribers[j].activation_date)
            => \A k \in 1..Len(usage) : usage[k].usage_id # prev.usage[i].usage_id
        /\ \A k \in 1..Len(usage) :
            /\ \E j \in 1..Len(subscribers) :
                subscribers[j].subscriber_id = usage[k].subscriber_id
            /\ \A j \in 1..Len(subscribers) :
                subscribers[j].subscriber_id = usage[k].subscriber_id
                => usage[k].usage_date >= subscribers[j].activation_date

(* one usage row before its subscriber's activation has been removed and one
   on the activation date is kept *)
C5_Witness ==
    /\ pc = "fixed"
    /\ Len(prev.usage) = 2
    /\ Len(usage) = 1
    /\ prev.usage[1].subscriber_id = <<"SUB1">>
    /\ prev.usage[2].subscriber_id = <<"SUB1">>
    /\ prev.usage[1].usage_date = 1
    /\ prev.usage[2].usage_date = 2
    /\ usage[1] = prev.usage[2]
    /\ \E j \in 1..Len(subscribers) :
        /\ subscribers[j].subscriber_id = <<"SUB1">>
        /\ subscribers[j].activation_date = 2

(* C6: fix_impossible_values removes every billing row with bill_amount < 0,
   keeps every row with bill_amount >= 0 with all its fields, and every billing
   row of the saved output has bill_amount >= 0. *)
C6_NonNegativeBilling ==
    /\ pc = "fixed" =>
        /\ \A i \in 1..Len(prev.billing) :
            IF prev.billing[i].bill_amount < 0
            THEN \A k \in 1..Len(billing) : billing[k].bill_id # prev.billing[i].bill_id
            ELSE \E k \in 1..Len(billing) : billing[k] = prev.billing[i]
        /\ \A k \in 1..Len(billing) : \E i \in 1..Len(prev.billing) :
            billing[k] = prev.billing[i]
    /\ output # Missing =>
        \A k \in 1..Len(Final.billing) : Final.billing[k].bill_amount >= 0

(* a bill of -50 has been removed next to a bill of 0 that is kept *)
C6_Witness ==
    /\ pc = "fixed"
    /\ \E i \in 1..Len(prev.billing) : prev.billing[i].bill_amount = -50
    /\ \E i \in 1..Len(prev.billing) : prev.billing[i].bill_amount = 0
    /\ Len(billing) = 1
    /\ billing[1].bill_amount = 0

Exceeds(c, k) == c # Missing /\ c[1].n > k * c[1].d

(* C7: handle_outliers sets outlier_flag and caps data_usage_gb to 100 on the
   usage rows whose value on entry is > 100, and clears outlier_flag and keeps
   the value on the others; so no usage value exceeds 100 after the stage,
   fix_impossible_values only removes usage rows, and every usage row of the
   saved output has a data_usage_gb <= 100. *)
C7_UsageCapping ==
    /\ pc = "outliers_handled" =>
        /\ Len(usage) = Len(prev.usage)
        /\ \A i \in 1..Len(usage) :
            /\ SameExcept(prev.usage[i], usage[i], {"data_usage_gb", "outlier_flag"})
            /\ IF Exceeds(prev.usage[i].data_usage_gb, 100)
               THEN /\ usage[i].outlier_flag = TRUE
                    /\ usage[i].data_usage_gb = <<[n |-> 100, d |-> 1]>>
               ELSE /\ usage[i].outlier_flag = FALSE
                    /\ usage[i].data_usage_gb = prev.usage[i].data_usage_gb
            /\ ~ Exceeds(usage[i].data_usage_gb, 100)
    /\ pc = "fixed" =>
        \A k \in 1..Len(usage) : \E i \in 1..Len(prev.usage) : usage[k] = prev.usage[i]
    /\ output # Missing =>
        \A k \in 1..Len(Final.usage) :
            /\ Final.usage[k].data_usage_gb # Missing
            /\ ~ Exceeds(Final.usage[k].data_usage_gb, 100)

(* a value imputed to 105 (the mean of 20 and 190) is capped and flagged next
   to a stored 190, while the 20 stays unflagged *)
C7_Witness ==
    /\ pc = "outliers_handled"
    /\ \E i \in 1..Len(usage) :
        /\ prev.usage[i].data_usage_gb = <<[n |-> 105, d |-> 1]>>
        /\ usage[i].data_usage_gb = <<[n |-> 100, d |-> 1]>>
        /\ usage[i].outlier_flag
    /\ \E i \in 1..Len(usage) :
        /\ prev.usage[i].data_usage_gb = <<[n |-> 20, d |-> 1]>>
        /\ usage[i].data_usage_gb = <<[n |-> 20, d |-> 1]>>
        /\ ~ usage[i].outlier_flag

(* C8: handle_outliers removes no row of any table and changes no bill_amount
   and no outage_duration_mins; it sets data_quality_flag on every bill with
   bill_amount > 2000 and leaves a flag that was set; it sets the outage
   outlier_flag exactly on the rows with outage_duration_mins > 1440. *)
C8_FlagOnlyOutliers ==
    pc = "outliers_handled" =>
        /\ subscribers = prev.subscribers
        /\ tickets = prev.tickets
        /\ Len(usage) = Len(prev.usage)
        /\ Len(billing) = Len(prev.billing)
        /\ Len(outages) = Len(prev.outages)
        /\ \A i \in 1..Len(usage) : usage[i].usage_id = prev.usage[i].usage_id
        /\ \A i \in 1..Len(billing) :
            /\ SameExcept(prev.billing[i], billing[i], {"data_quality_flag"})
            /\ prev.billing[i].bill_amount > 2000 => billing[i].data_quality_flag
            /\ prev.billing[i].data_quality_flag => billing[i].data_quality_flag
        /\ \A i \in 1..Len(outages) :
            /\ SameExcept(prev.outages[i], outages[i], {"outlier_flag"})
            /\ outages[i].outlier_flag = Exceeds(prev.outages[i].outage_duration_mins, 1440)

(* an outage of exactly 1440 minutes that was loaded with outlier_flag set is
   unflagged next to one of 1441 minutes that is flagged *)
C8_Witness ==
    /\ pc = "outliers_handled"
    /\ \E i \in 1..Len(outages) :
        /\ prev.outages[i].outage_duration_mins = <<[n |-> 1440, d |-> 1]>>
        /\ prev.outages[i].outlier_flag
        /\ ~ outages[i].outlier_flag
    /\ \E i \in 1..Len(outages) :
        /\ prev.outages[i].outage_duration_mins = <<[n |-> 1441, d |-> 1]>>
        /\ outages[i].outlier_flag

(* C9: handle_missing_values keeps every billing row and every ticket row and
   changes no field but data_quality_flag; it flags every Paid bill without
   payment_date and every Resolved ticket without resolution_date, and the
   date stays missing. *)
C9_FlagOnlyMissingDates ==
    pc = "imputed" =>
        /\ Len(billing) = Len(prev.billing)
        /\ Len(tickets) = Len(prev.tickets)
        /\ \A i \in 1..Len(billing) :
            /\ SameExcept(prev.billing[i], billing[i], {"data_quality_flag"})
            /\ (billing[i].payment_status = "Paid" /\ billing[i].payment_date = Missing)
                => billing[i].data_quality_flag
        /\ \A i \in 1..Len(tickets) :
            /\ SameExcept(prev.tickets[i], tickets[i], {"data_quality_flag"})
            /\ (tickets[i].ticket_status = "Resolved" /\ tickets[i].resolution_date = Missing)
                => tickets[i].data_quality_flag

(* a Paid bill without payment_date that was loaded unflagged is flagged, its
   date still missing *)
C9_Witness ==
    /\ pc = "imputed"
    /\ \E i \in 1..Len(billing) :
        /\ prev.billing[i].payment_status = "Paid"
        /\ prev.billing[i].payment_date = Missing
        /\ ~ prev.billing[i].data_quality_flag
        /\ billing[i].data_quality_flag
        /\ billing[i].payment_date = Missing

(* C10: a billing row of the saved output has data_quality_flag set if and only
   if it is Paid without payment_date or its bill_amount is > 2000, whatever
   flag the loaded row carried. *)
C10_BillingFlagIffCondition ==
    output # Missing =>
        \A k \in 1..Len(Final.billing) :
            LET b == Final.billing[k]
            IN b.data_quality_flag <=>
                \/ (b.payment_status = "Paid" /\ b.payment_date = Missing)
                \/ b.bill_amount > 2000

(* a bill loaded with the flag set is saved unflagged, next to a bill of 2001
   that is saved flagged *)
C10_Witness ==
    /\ output # Missing
    /\ \E k \in 1..Len(Final.billing) :
        /\ input.billing[Final.billing[k].rest].data_quality_flag
        /\ ~ Final.billing[k].data_quality_flag
    /\ \E k \in 1..Len(Final.billing) :
        /\ Final.billing[k].bill_amount = 2001
        /\ Final.billing[k].payment_status = "Pending"
        /\ Final.billing[k].data_quality_flag

(* C11: a ticket of the saved output has data_quality_flag set if and only if
   that output row is Resolved without resolution_date. *)
C11_TicketFlagIffCondition ==
    output # Missing =>
        \A k \in 1..Len(Final.tickets) :
            LET t == Final.tickets[k]
            IN t.data_quality_flag <=>
                (t.ticket_status = "Resolved" /\ t.resolution_date = Missing)

HasKey(t, key, v) == \E k \in 1..Len(t) : t[k][key] = v

(* the usage row joins a subscriber row on or after its activation date *)
JoinsValid(u, subs) ==
    \E j \in 1..Len(subs) :
        /\ subs[j].subscriber_id = u.subscriber_id
        /\ u.usage_date >= subs[j].activation_date

(* C12 as stated: every row that carries outlier_flag or data_quality_flag when
   the flagging stages are over is a row of the saved output. *)
C12_FlaggedRowsRemain ==
    output # Missing =>
        /\ \A i \in 1..Len(prev.usage) :
            prev.usage[i].outlier_flag =>
                HasKey(Final.usage, "usage_id", prev.usage[i].usage_id)
        /\ \A i \in 1..Len(prev.billing) :
            prev.billing[i].data_quality_flag =>
                HasKey(Final.billing, "bill_id", prev.billing[i].bill_id)
        /\ \A i \in 1..Len(prev.tickets) :
            prev.tickets[i].data_quality_flag =>
                HasKey(Final.tickets, "ticket_id", prev.tickets[i].ticket_id)
        /\ \A i \in 1..Len(prev.outages) :
            prev.outages[i].outlier_flag =>
                HasKey(Final.outages, "outage_id", prev.outages[i].outage_id)

(* C12 (amended): no row is dropped because it is flagged: a flagged ticket or
   outage is always a row of the saved output, and a flagged bill or usage row
   is one unless fix_impossible_values removes it under its own rules (the
   bill_amount is < 0; the usage row joins no subscriber row with usage_date >=
   activation_date). *)
C12_FlagsAreNotFilters ==
    output # Missing =>
        /\ \A i \in 1..Len(prev.usage) :
            (prev.usage[i].outlier_flag /\ JoinsValid(prev.usage[i], prev.subscribers)) =>
                HasKey(Final.usage, "usage_id", prev.usage[i].usage_id)
        /\ \A i \in 1..Len(prev.billing) :
            (prev.billing[i].data_quality_flag /\ prev.billing[i].bill_amount >= 0) =>
                HasKey(Final.billing, "bill_id", prev.billing[i].bill_id)
        /\ \A i \in 1..Len(prev.tickets) :
            prev.tickets[i].data_quality_flag =>
                HasKey(Final.tickets, "ticket_id", prev.tickets[i].ticket_id)
        /\ \A i \in 1..Len(prev.outages) :
            prev.outages[i].outlier_flag =>
                HasKey(Final.outages, "outage_id", prev.outages[i].outage_id)

(* a capped and flagged usage row on its activation date is saved, next to a
   flagged one before its activation date that is not *)
C12_Witness ==
    /\ output # Missing
    /\ Len(prev.usage) = 2
    /\ prev.usage[1].outlier_flag
    /\ prev.usage[2].outlier_flag
    /\ prev.usage[1].subscriber_id = <<"SUB1">>
    /\ prev.usage[2].subscriber_id = <<"SUB1">>
    /\ prev.usage[1].usage_date = 2
    /\ prev.usage[2].usage_date = 1
    /\ Final.usage = <<prev.usage[1]>>

KeySet(t, key) == {t[i][key] : i \in 1..Len(t)}

SameKeys(old, new) ==
    /\ KeySet(old.subscribers, "subscriber_id") = KeySet(new.subscribers, "subscriber_id")
    /\ KeySet(old.usage, "usage_id") = KeySet(new.usage, "usage_id")
    /\ KeySet(old.billing, "bill_id") = KeySet(new.billing, "bill_id")
    /\ KeySet(old.tickets, "ticket_id") = KeySet(new.tickets, "ticket_id")
    /\ KeySet(old.outages, "outage_id") = KeySet(new.outages, "outage_id")
    /\ Len(old.subscribers) = Len(new.subscribers)
    /\ Len(old.usage) = Len(new.usage)
    /\ Len(old.billing) = Len(new.billing)
    /\ Len(old.tickets) = Len(new.tickets)
    /\ Len(old.outages) = Len(new.outages)

(* the row at position i repeats the key of an earlier row of the file *)
IsDuplicate(t, key, i) == \E j \in 1..(i - 1) : t[j][key] = t[i][key]

(* the positions in the loaded file of the rows of t *)
Positions(t) == {t[i].rest : i \in 1..Len(t)}

(* C13: no stage adds a row; standardize_labels, handle_missing_values and
   handle_outliers return the keys they received; a loaded row is absent from
   the saved output only if it is a duplicate-key row, a bill with
   bill_amount < 0 or a usage row whose usage_date precedes the
   activation_date of its subscriber. *)
C13_RowLifecycle ==
    /\ pc \in {"standardized", "imputed", "outliers_handled"} => SameKeys(prev, Current)
    /\ pc \in {"deduplicated", "fixed"} =>
        /\ Positions(subscribers) \subseteq Positions(prev.subscribers)
        /\ Positions(usage) \subseteq Positions(prev.usage)
        /\ Positions(billing) \subseteq Positions(prev.billing)
        /\ Positions(tickets) \subseteq Positions(prev.tickets)
        /\ Positions(outages) \subseteq Positions(prev.outages)
    /\ output # Missing =>
        /\ \A i \in 1..Len(input.subscribers) :
            i \in Positions(Final.subscribers)
            \/ IsDuplicate(input.subscribers, "subscriber_id", i)
        /\ \A i \in 1..Len(input.tickets) :
            i \in Positions(Final.tickets) \/ IsDuplicate(input.tickets, "ticket_id", i)
        /\ \A i \in 1..Len(input.outages) :
            i \in Positions(Final.outages) \/ IsDuplicate(input.outages, "outage_id", i)
        /\ \A i \in 1..Len(input.billing) :
            \/ i \in Positions(Final.billing)
            \/ IsDuplicate(input.billing, "bill_id", i)
            \/ input.billing[i].bill_amount < 0
        /\ \A i \in 1..Len(input.usage) :
            \/ i \in Positions(Final.usage)
            \/ IsDuplicate(input.usage, "usage_id", i)
            \/ \E j \in 1..Len(Final.subscribers) :
                /\ Final.subscribers[j].subscriber_id = input.usage[i].subscriber_id
                /\ input.usage[i].usage_date < Final.subscribers[j].activation_date

(* new is old without the rows that repeat an earlier key, in the old order *)
FirstOfEachKey(old, new, key) ==
    /\ \A i \in 1..Len(old) :
        (~ IsDuplicate(old, key, i)) <=> (\E k \in 1..Len(new) : new[k] = old[i])
    /\ \A k \in 1..Len(new) : \E i \in 1..Len(old) : new[k] = old[i]
    /\ \A k \in 1..Len(new) : ~ IsDuplicate(new, key, k)
    /\ \A k \in 1..(Len(new) - 1) : new[k].rest < new[k + 1].rest
    /\ Cardinality(KeySet(old, key)) = Len(new)

(* C14: remove_duplicates returns, for each table, exactly the first row of
   each key value of its input in input order, and reports input rows minus
   output rows as removed; an empty table stays empty with zero removed. *)
C14_FirstOccurrenceWins ==
    pc = "deduplicated" =>
        /\ FirstOfEachKey(prev.subscribers, subscribers, "subscriber_id")
        /\ FirstOfEachKey(prev.usage, usage, "usage_id")
        /\ FirstOfEachKey(prev.billing, billing, "bill_id")
        /\ FirstOfEachKey(prev.tickets, tickets, "ticket_id")
        /\ FirstOfEachKey(prev.outages, outages, "outage_id")
        /\ removed.subscribers = Len(prev.subscribers) - Len(subscribers)
        /\ removed.usage = Len(prev.usage) - Len(usage)
        /\ removed.billing = Len(prev.billing) - Len(billing)
        /\ removed.tickets = Len(prev.tickets) - Len(tickets)
        /\ removed.outages = Len(prev.outages) - Len(outages)
        /\ prev.usage = <<>> => (usage = <<>> /\ removed.usage = 0)

(* a ticket file with keys 1, 2, 1 keeps its first two rows and reports one
   removed *)
C14_Witness ==
    /\ pc = "deduplicated"
    /\ Len(prev.tickets) = 3
    /\ prev.tickets[1].ticket_id = 1
    /\ prev.tickets[2].ticket_id = 2
    /\ prev.tickets[3].ticket_id = 1
    /\ tickets = <<prev.tickets[1], prev.tickets[2]>>
    /\ removed.tickets = 1

PlanVariants == {"prepaid", "PREPAID", "Pre-paid", "postpaid", "POSTPAID", "Post-paid"}

CityVariants == {"AbuDhabi", "Abu-Dhabi", "AD", "dubai", "DUBAI"}

StatusVariants == {"resolved", "RESOLVED", "Closed", "open", "OPEN"}

(* C15: standardize_labels replaces every plan_type, city and ticket_status
   that is exactly a variant of its mapping by the canonical form (DUBAI
   becomes Dubai, PREPAID becomes Prepaid, Closed becomes Resolved), leaves
   every other value as it is (Al Ain and the lower-case ad stay), and
   changes no other column and no other table. *)
C15_LabelCanonicalizer ==
    pc = "standardized" =>
        /\ Len(subscribers) = Len(prev.subscribers)
        /\ Len(tickets) = Len(prev.tickets)
        /\ \A i \in 1..Len(subscribers) :
            LET old == prev.subscribers[i]
                new == subscribers[i]
            IN /\ SameExcept(old, new, {"plan_type", "city"})
               /\ old.plan_type \in PlanVariants => new.plan_type = plan_type_mapping[old.plan_type]
               /\ old.plan_type \notin PlanVariants => new.plan_type = old.plan_type
               /\ old.city \in CityVariants => new.city = city_mapping[old.city]
               /\ old.city \notin CityVariants => new.city = old.city
               /\ old.city = "DUBAI" => new.city = "Dubai"
               /\ old.city = "Al Ain" => new.city = "Al Ain"
               /\ old.city = "ad" => new.city = "ad"
               /\ old.plan_type = "PREPAID" => new.plan_type = "Prepaid"
        /\ \A i \in 1..Len(tickets) :
            LET old == prev.tickets[i]
                new == tickets[i]
            IN /\ SameExcept(old, new, {"ticket_status"})
               /\ old.ticket_status \in StatusVariants =>
                    new.ticket_status = status_mapping[old.ticket_status]
               /\ old.ticket_status \notin StatusVariants =>
                    new.ticket_status = old.ticket_status
               /\ old.ticket_status = "Closed" => new.ticket_status = "Resolved"
               /\ old.ticket_status = "open" => new.ticket_status = "Open"
        /\ usage = prev.usage
        /\ billing = prev.billing
        /\ outages = prev.outages

(* a subscriber file with the cities DUBAI and Al Ain leaves the stage with
   Dubai and Al Ain *)
C15_Witness ==
    /\ pc = "standardized"
    /\ Len(prev.subscribers) = 2
    /\ prev.subscribers[1].city = "DUBAI"
    /\ prev.subscribers[2].city = "Al Ain"
    /\ subscribers[1].city = "Dubai"
    /\ subscribers[2].city = "Al Ain"

(* C16: remove_duplicates applied to the five tables it has just returned
   returns the same tables, same rows in the same order. *)
C16_DeduplicationIdempotent ==
    pc = "deduplicated" =>
        /\ DropDuplicates(subscribers, "subscriber_id") = subscribers
        /\ DropDuplicates(usage, "usage_id") = usage
        /\ DropDuplicates(billing, "bill_id") = billing
        /\ DropDuplicates(tickets, "ticket_id") = tickets
        /\ DropDuplicates(outages, "outage_id") = outages

(* a billing file whose three rows share one key leaves the stage with one
   row, which a second pass keeps *)
C16_Witness ==
    /\ pc = "deduplicated"
    /\ Len(prev.billing) = 3
    /\ KeySet(prev.billing, "bill_id") = {1}
    /\ removed.billing = 2
    /\ billing = <<prev.billing[1]>>
    /\ DropDuplicates(billing, "bill_id") = billing

Targets(mapping) == {mapping[x] : x \in DOMAIN mapping}

(* every label of the tables is a canonical form of its mapping *)
AllCanonical(subs, tks) ==
    /\ \A i \in 1..Len(subs) :
        /\ subs[i].plan_type \in Targets(plan_type_mapping)
        /\ subs[i].city \in Targets(city_mapping)
    /\ \A i \in 1..Len(tks) : tks[i].ticket_status \in Targets(status_mapping)

(* C17: standardize_labels applied to the tables it has just returned
   changes nothing, applied to tables whose labels are all canonical forms it
   changes nothing, and in each of the three mappings no target is a
   variant. *)
C17_CanonicalizationIdempotent ==
    /\ pc = "standardized" =>
        /\ StandardizeSubscribers(subscribers) = subscribers
        /\ StandardizeTickets(tickets) = tickets
        /\ AllCanonical(prev.subscribers, prev.tickets) =>
            (subscribers = prev.subscribers /\ tickets = prev.tickets)
    /\ Targets(plan_type_mapping) \cap DOMAIN plan_type_mapping = {}
    /\ Targets(city_mapping) \cap DOMAIN city_mapping = {}
    /\ Targets(status_mapping) \cap DOMAIN status_mapping = {}

(* tickets loaded as Closed and open leave the stage as Resolved and Open,
   which a second pass keeps *)
C17_Witness ==
    /\ pc = "standardized"
    /\ Len(prev.tickets) = 2
    /\ prev.tickets[1].ticket_status = "Closed"
    /\ prev.tickets[2].ticket_status = "open"
    /\ tickets[1].ticket_status = "Resolved"
    /\ tickets[2].ticket_status = "Open"
    /\ StandardizeTickets(tickets) = tickets

(* C18: handle_missing_values sets every missing outage_duration_mins to
   (outage_end_time - outage_start_time) of its own row in minutes (a cell
   with no value when one of the two times is missing, as the difference
   then has none), and keeps every present outage_duration_mins, even one
   that differs from end minus start. *)
C18_OutageDurationDerived ==
    pc = "imputed" =>
        /\ Len(outages) = Len(prev.outages)
        /\ \A i \in 1..Len(outages) :
            LET old == prev.outages[i]
                new == outages[i]
            IN /\ SameExcept(old, new, {"outage_duration_mins"})
               /\ old.outage_duration_mins # Missing =>
                    new.outage_duration_mins = old.outage_duration_mins
               /\ (old.outage_duration_mins = Missing
                   /\ old.outage_start_time # Missing
                   /\ old.outage_end_time # Missing) =>
                    /\ new.outage_duration_mins # Missing
                    /\ new.outage_duration_mins[1].n * SecondsPerMinute =
                        (old.outage_end_time[1] - old.outage_start_time[1])
                            * new.outage_duration_mins[1].d
               /\ (old.outage_duration_mins = Missing
                   /\ (old.outage_start_time = Missing \/ old.outage_end_time = Missing)) =>
                    new.outage_duration_mins = Missing

(* an outage from second 0 to second 90 with no duration leaves the stage
   with 3/2 minutes, next to an outage with the same times that keeps its
   loaded 1440 minutes *)
C18_Witness ==
    /\ pc = "imputed"
    /\ \E i, j \in 1..Len(outages) :
        /\ prev.outages[i].outage_duration_mins = Missing
        /\ prev.outages[i].outage_start_time = <<0>>
        /\ prev.outages[i].outage_end_time = <<90>>
        /\ outages[i].outage_duration_mins = <<[n |-> 3, d |-> 2]>>
        /\ prev.outages[j].outage_start_time = <<0>>
        /\ prev.outages[j].outage_end_time = <<90>>
        /\ prev.outages[j].outage_duration_mins = <<[n |-> 1440, d |-> 1]>>
        /\ outages[j].outage_duration_mins = <<[n |-> 1440, d |-> 1]>>

StepOrder ==
    {<<"start", "loaded">>, <<"start", "load_failed">>, <<"loaded", "deduplicated">>,
     <<"deduplicated", "standardized">>, <<"standardized", "imputed">>,
     <<"imputed", "outliers_handled">>, <<"outliers_handled", "fixed">>,
     <<"fixed", "saved">>, <<"saved", "done">>}

CleaningStages == {"deduplicated", "standardized", "imputed", "outliers_handled", "fixed"}

(* C19: main runs load, remove_duplicates, standardize_labels,
   handle_missing_values, handle_outliers, fix_impossible_values,
   save_cleaned_data, generate_summary_report in this order, each step on the
   tables the step before returned; the output is written only by the step
   after fix_impossible_values and holds its tables; after a failed load no
   step runs, no stage has run and nothing is written. *)
C19_PipelineOrder ==
    /\ [](output # Missing => pc \in {"saved", "done"})
    /\ [](report # Missing => pc = "done")
    /\ [](pc = "load_failed" =>
            (prev = NoTables /\ Current = NoTables /\ output = Missing /\ report = Missing))
    /\ [][/\ <<pc, pc'>> \in StepOrder
          /\ pc' = "loaded" =>
                <<subscribers', usage', billing', tickets', outages'>> =
                    <<input.subscribers, input.usage, input.billing, input.tickets,
                      input.outages>>
          /\ pc' \in CleaningStages => prev' = Current
          /\ pc' \notin CleaningStages \cup {"loaded"} =>
                UNCHANGED <<subscribers, usage, billing, tickets, outages, prev>>
          /\ pc' = "saved" => output' = Some(Current)
          /\ pc' # "saved" => output' = output]_vars

(* a run that removed a bill ends with the output written from the tables of
   fix_impossible_values and the report printed *)
C19_Witness ==
    /\ pc = "done"
    /\ output # Missing
    /\ report # Missing
    /\ Final = Current
    /\ Len(Final.billing) < Len(input.billing)
    /\ Len(Final.billing) > 0

(* C20: fix_impossible_values keeps exactly the usage rows whose
   subscriber_id equals that of a subscriber row with activation_date <=
   usage_date; a usage row whose subscriber_id equals that of no subscriber
   row is removed, whatever its date; every retained usage_id occurs once. *)
C20_InnerJoinDropsOrphans ==
    pc = "fixed" =>
        /\ \A i \in 1..Len(prev.usage) :
            (\E k \in 1..Len(usage) : usage[k] = prev.usage[i])
                <=> JoinsValid(prev.usage[i], prev.subscribers)
        /\ \A k \in 1..Len(usage) : \E i \in 1..Len(prev.usage) : usage[k] = prev.usage[i]
        /\ \A i \in 1..Len(prev.usage) :
            (~ HasKey(prev.subscribers, "subscriber_id", prev.usage[i].subscriber_id)) =>
                ~ HasKey(usage, "usage_id", prev.usage[i].usage_id)
        /\ \A k \in 1..Len(usage) : ~ IsDuplicate(usage, "usage_id", k)
        /\ \A k \in 1..(Len(usage) - 1) : usage[k].rest < usage[k + 1].rest

(* a usage row of SUB2 dated on day 2 is removed when the subscriber file
   holds SUB1 only, while the row of SUB1 of the same day stays *)
C20_Witness ==
    /\ pc = "fixed"
    /\ Len(prev.subscribers) = 1
    /\ prev.subscribers[1].subscriber_id = <<"SUB1">>
    /\ Len(prev.usage) = 2
    /\ prev.usage[1].subscriber_id = <<"SUB2">>
    /\ prev.usage[1].usage_date = 2
    /\ prev.usage[2].subscriber_id = <<"SUB1">>
    /\ prev.usage[2].usage_date = 2
    /\ usage = <<prev.usage[2]>>

(* every row of new is a row of old (same position in the loaded file) with
   the same value in column flag *)
FlagsKept(old, new, flag) ==
    \A k \in 1..Len(new) : \E i \in 1..Len(old) :
        old[i].rest = new[k].rest /\ old[i][flag] = new[k][flag]

(* C21: fix_impossible_values changes no data_quality_flag and no
   outlier_flag of a row it keeps; a ticket loaded with a resolution_date
   before its ticket_date is saved with no resolution_date and an unset
   data_quality_flag, and a ticket that handle_missing_values flagged
   (Resolved, no resolution_date) is saved flagged with the status
   In Progress. *)
C21_FixKeepsFlags ==
    /\ pc = "fixed" =>
        /\ FlagsKept(prev.usage, usage, "outlier_flag")
        /\ FlagsKept(prev.billing, billing, "data_quality_flag")
        /\ FlagsKept(prev.outages, outages, "outlier_flag")
        /\ Len(tickets) = Len(prev.tickets)
        /\ \A i \in 1..Len(tickets) :
            /\ tickets[i].data_quality_flag = prev.tickets[i].data_quality_flag
            /\ tickets[i].rest = prev.tickets[i].rest
            /\ (prev.tickets[i].resolution_date # Missing
                /\ prev.tickets[i].resolution_date[1] < prev.tickets[i].ticket_date) =>
                    tickets[i].resolution_date = Missing
    /\ output # Missing =>
        \A k \in 1..Len(Final.tickets) :
            LET t == Final.tickets[k]
                raw == input.tickets[t.rest]
            IN /\ (raw.resolution_date # Missing
                   /\ raw.resolution_date[1] < raw.ticket_date) =>
                        (t.resolution_date = Missing /\ ~ t.data_quality_flag)
               /\ (raw.ticket_status \in ResolvedSynonyms
                   /\ raw.resolution_date = Missing) =>
                        (t.data_quality_flag /\ t.ticket_status = "In Progress"
                         /\ t.resolution_date = Missing)

(* of two saved tickets, the one loaded as Closed, flagged and resolved
   before it was opened is In Progress without date and without flag, and
   the one loaded as Resolved, unflagged and without date is In Progress
   and flagged *)
C21_Witness ==
    /\ output # Missing
    /\ Len(Final.tickets) = 2
    /\ input.tickets[1].ticket_status = "Closed"
    /\ input.tickets[1].resolution_date = <<1>>
    /\ input.tickets[1].data_quality_flag
    /\ input.tickets[2].ticket_status = "Resolved"
    /\ input.tickets[2].resolution_date = Missing
    /\ ~ input.tickets[2].data_quality_flag
    /\ Final.tickets[1].ticket_status = "In Progress"
    /\ Final.tickets[1].resolution_date = Missing
    /\ ~ Final.tickets[1].data_quality_flag
    /\ Final.tickets[2].ticket_status = "In Progress"
    /\ Final.tickets[2].data_quality_flag

====
